---------------------------- MODULE Spec2Model ----------------------------
(***************************************************************************)
(* Model of package cli (src/cli/cli.go): Run, shimSchemaCompatibility and *)
(* findSchemaPath.                                                         *)
(*                                                                         *)
(* A Go string is modelled as a sequence of one-character strings, so that *)
(* prefix tests, slicing, concatenation and the two regular expressions    *)
(* are computed character by character as the code computes them.          *)
(***************************************************************************)
EXTENDS Integers, Sequences, FiniteSets, TLC

VARIABLES
    pc,          \* position of the call being modelled
    args,        \* the caller's argument slice (Run's parameter as the caller sees it)
    arguments,   \* Run's local variable `arguments` (reassigned at line 33)
    fs,          \* the file system: path -> Missing | Unreadable | content
    cleanup,     \* the cleanup closure of line 178: None, or the path it removes
    created,     \* paths os.CreateTemp created during this Run
    environ,     \* the ambient process environment: variable -> Unset | value
    cmdEnv,      \* cmd.Env, a sequence of KEY=VALUE strings
    spawned,     \* how many times the child process was started
    childArgs,   \* the argument list the child was started with
    err,         \* what Run returned: None while running, NoError, or an error record
    located,     \* result of findSchemaPath (specification SpecLocate)
    schemaStr,   \* the schema text under evaluation (specification SpecShim)
    evaluated,   \* result of evaluating schemaStr
    reevaluated  \* result of evaluating the patched text again

vars == <<pc, args, arguments, fs, cleanup, created, environ, cmdEnv, spawned,
          childArgs, err, located, schemaStr, evaluated, reevaluated>>

\* values of the variables a specification does not use
NoArgs == <<>>
NoFiles == <<>>
NoEnviron == <<>>
NoCleanup == [set |-> FALSE, path |-> <<>>]
NoResult == [kind |-> "running", cause |-> "", args |-> <<>>]
NotEvaluated == [patched |-> FALSE, text |-> <<>>, at |-> -1]

-----------------------------------------------------------------------------
(* Strings                                                                 *)

\* strings.HasPrefix(s, prefix)
HasPrefix(s, prefix) ==
    /\ Len(s) >= Len(prefix)
    /\ SubSeq(s, 1, Len(prefix)) = prefix

\* strings.TrimPrefix(s, prefix)
TrimPrefix(s, prefix) ==
    IF HasPrefix(s, prefix) THEN SubSeq(s, Len(prefix) + 1, Len(s)) ELSE s

\* s[from:] and s[:to] with Go's 0-based offsets
SliceFrom(s, from) == SubSeq(s, from + 1, Len(s))
SliceTo(s, to) == SubSeq(s, 1, to)
Slice(s, from, to) == SubSeq(s, from + 1, to)

\* whether the literal lit occurs in s at 0-based offset p
LitAt(s, p, lit) ==
    /\ p + Len(lit) <= Len(s)
    /\ SubSeq(s, p + 1, p + Len(lit)) = lit

\* the concatenation of a sequence of strings
RECURSIVE Flatten(_)
Flatten(ss) == IF ss = <<>> THEN <<>> ELSE Head(ss) \o Flatten(Tail(ss))

\* regexp character classes \s and \w (RE2: [\t\n\f\r ] and [0-9A-Za-z_])
SpaceChars == {" ", "\n", "\t", "\r", "\f"}
WordChars ==
    {"a", "b", "c", "d", "e", "f", "g", "h", "i", "j", "k", "l", "m", "n", "o",
     "p", "q", "r", "s", "t", "u", "v", "w", "x", "y", "z",
     "A", "B", "C", "D", "E", "F", "G", "H", "I", "J", "K", "L", "M", "N", "O",
     "P", "Q", "R", "S", "T", "U", "V", "W", "X", "Y", "Z",
     "0", "1", "2", "3", "4", "5", "6", "7", "8", "9", "_"}
IsSpace(c) == c \in SpaceChars
IsWord(c) == c \in WordChars

-----------------------------------------------------------------------------
(* findSchemaPath                                                          *)

SchemaFlag == <<"-", "-", "s", "c", "h", "e", "m", "a">>
SchemaFlagEq == <<"-", "-", "s", "c", "h", "e", "m", "a", "=">>

\* the loop of findSchemaPath from index i (1-based) on
RECURSIVE findSchemaPathFrom(_, _)
findSchemaPathFrom(a, i) ==
    IF i > Len(a) THEN <<>>
    ELSE IF a[i] = SchemaFlag /\ i + 1 <= Len(a) THEN a[i + 1]
    ELSE IF HasPrefix(a[i], SchemaFlagEq) THEN TrimPrefix(a[i], SchemaFlagEq)
    ELSE findSchemaPathFrom(a, i + 1)

\* a slip in the loop: every --schema=<value> token is looked for before any
\* split --schema <value> pair
findSchemaPathJoinedFirst(a) ==
    LET joined == { i \in 1..Len(a) : HasPrefix(a[i], SchemaFlagEq) }
        first == CHOOSE i \in joined : \A j \in joined : i <= j
    IN  IF joined # {} THEN TrimPrefix(a[first], SchemaFlagEq)
        ELSE findSchemaPathFrom(a, 1)

findSchemaPath(a) == findSchemaPathFrom(a, 1)

-----------------------------------------------------------------------------
(* The two regular expressions of shimSchemaCompatibility                  *)

DatasourceKw == <<"d", "a", "t", "a", "s", "o", "u", "r", "c", "e">>
UrlKw == <<"u", "r", "l">>

\* the offset reached from p by a greedy \s*, \w* and [^}]*
RECURSIVE SkipSpace(_, _)
SkipSpace(s, p) ==
    IF p < Len(s) /\ IsSpace(s[p + 1]) THEN SkipSpace(s, p + 1) ELSE p

RECURSIVE SkipWord(_, _)
SkipWord(s, p) ==
    IF p < Len(s) /\ IsWord(s[p + 1]) THEN SkipWord(s, p + 1) ELSE p

RECURSIVE SkipNotBrace(_, _)
SkipNotBrace(s, p) ==
    IF p < Len(s) /\ s[p + 1] # "}" THEN SkipNotBrace(s, p + 1) ELSE p

\* datasource\s+\w+\s+\{ anchored at offset p: the offset after the "{", or
\* -1.  The three classes and "{" are disjoint, so the greedy run is the
\* only way to match.
HeaderEnd(s, p) ==
    LET a == p + Len(DatasourceKw)
        b == SkipSpace(s, a)
        c == SkipWord(s, b)
        d == SkipSpace(s, c)
    IN  IF /\ LitAt(s, p, DatasourceKw)
           /\ b > a
           /\ c > b
           /\ d > c
           /\ d < Len(s)
           /\ s[d + 1] = "{"
        THEN d + 1
        ELSE -1

\* (?s)datasource\s+\w+\s+\{([^}]+)\} anchored at offset p: the submatch
\* indexes <<match[0], match[1], match[2], match[3]>>, or <<>>
DatasourceMatchAt(s, p) ==
    LET g == HeaderEnd(s, p)
        e == SkipNotBrace(s, g)
    IN  IF g >= 0 /\ e > g /\ e < Len(s)
        THEN <<p, e + 1, g, e>>
        ELSE <<>>

\* datasourceRegex.FindStringSubmatchIndex(s): the leftmost match
RECURSIVE DatasourceFindFrom(_, _)
DatasourceFindFrom(s, p) ==
    IF p >= Len(s) THEN <<>>
    ELSE IF DatasourceMatchAt(s, p) # <<>> THEN DatasourceMatchAt(s, p)
    ELSE DatasourceFindFrom(s, p + 1)

FindStringSubmatchIndex(s) == DatasourceFindFrom(s, 0)

\* \burl\s*= anchored at offset i of b
UrlMatchAt(b, i) ==
    /\ LitAt(b, i, UrlKw)
    /\ (i = 0 \/ ~IsWord(b[i]))
    /\ LET j == SkipSpace(b, i + Len(UrlKw))
       IN  j < Len(b) /\ b[j + 1] = "="

\* urlRegex.MatchString(b)
UrlMatchString(b) == \E i \in 0..Len(b) : UrlMatchAt(b, i)

-----------------------------------------------------------------------------
(* The evaluation of a schema text, lines 108-137                          *)

\* "\n  url = env(\"DB_URL\")"
Injected ==
    <<"\n", " ", " ", "u", "r", "l", " ", "=", " ", "e", "n", "v", "(", "\"",
      "D", "B", "_", "U", "R", "L", "\"", ")">>

\* a slip in the index: the start of the whole match instead of the group
BlockStartWholeMatch(match) == match[1]

\* blockStart, blockEnd := match[2], match[3]
BlockStart(match) == match[3]
BlockEnd(match) == match[4]

\* newSchemaStr := schemaStr[:blockStart] + "\n  url = ..." + schemaStr[blockStart:]
NewSchemaStr(s, blockStart) ==
    SliceTo(s, blockStart) \o Injected \o SliceFrom(s, blockStart)

Unchanged(s) == [patched |-> FALSE, text |-> s, at |-> -1]

\* what lines 108-137 decide for the text s: unchanged, or the patched text
\* and the offset the line was inserted at
EvaluateSchema(s) ==
    LET match == FindStringSubmatchIndex(s)
    IN  IF Len(match) < 4 THEN Unchanged(s)
        ELSE LET blockStart == BlockStart(match)
                 blockEnd == BlockEnd(match)
                 blockContent == Slice(s, blockStart, blockEnd)
             IN  IF UrlMatchString(blockContent) THEN Unchanged(s)
                 ELSE [patched |-> TRUE,
                       text |-> NewSchemaStr(s, blockStart),
                       at |-> blockStart]

-----------------------------------------------------------------------------
(* Specification SpecShim: the evaluation applied to bounded schema texts  *)

MaxChunks == 5

\* the pieces the schema texts are put together from
ShimChunks ==
    { <<"d", "a", "t", "a", "s", "o", "u", "r", "c", "e", " ", "d", "b", " ", "{">>,
      <<"d", "a", "t", "a", "s", "o", "u", "r", "c", "e", " ", "d", "b", "{">>,
      <<"}">>,
      <<"u", "r", "l">>,
      <<"=">>,
      <<" ">>,
      <<"x">> }

ChunkSeqs == UNION { [1..n -> ShimChunks] : n \in 0..MaxChunks }
Docs == { Flatten(cs) : cs \in ChunkSeqs }

InitShim ==
    /\ pc = "evaluate"
    /\ schemaStr \in Docs
    /\ evaluated = NotEvaluated
    /\ reevaluated = NotEvaluated
    /\ args = NoArgs
    /\ arguments = NoArgs
    /\ fs = NoFiles
    /\ cleanup = NoCleanup
    /\ created = {}
    /\ environ = NoEnviron
    /\ cmdEnv = <<>>
    /\ spawned = 0
    /\ childArgs = NoArgs
    /\ err = NoResult
    /\ located = <<>>

\* lines 108-137 applied to the text read from the schema file
Evaluate ==
    /\ pc = "evaluate"
    /\ evaluated' = EvaluateSchema(schemaStr)
    /\ pc' = "evaluated"
    /\ UNCHANGED <<args, arguments, fs, cleanup, created, environ, cmdEnv,
                   spawned, childArgs, err, located, schemaStr, reevaluated>>

\* a later invocation reading the text a first invocation produced
Reevaluate ==
    /\ pc = "evaluated"
    /\ evaluated.patched
    /\ reevaluated' = EvaluateSchema(evaluated.text)
    /\ pc' = "reevaluated"
    /\ UNCHANGED <<args, arguments, fs, cleanup, created, environ, cmdEnv,
                   spawned, childArgs, err, located, schemaStr, evaluated>>

NextShim == Evaluate \/ Reevaluate

SpecShim == InitShim /\ [][NextShim]_vars

-----------------------------------------------------------------------------
(* The first datasource block of a text, as the specification describes it: *)
(* the first header `datasource`, whitespace, identifier, whitespace, `{`, *)
(* and the body up to the first `}` that follows (an empty body included). *)

RECURSIVE FirstHeaderFrom(_, _)
FirstHeaderFrom(s, p) ==
    IF p >= Len(s) THEN -1
    ELSE IF HeaderEnd(s, p) >= 0 THEN p
    ELSE FirstHeaderFrom(s, p + 1)

HasFirstHeader(s) == FirstHeaderFrom(s, 0) >= 0
FirstBodyStart(s) == HeaderEnd(s, FirstHeaderFrom(s, 0))
FirstBodyEnd(s) == SkipNotBrace(s, FirstBodyStart(s))
HasFirstBlock(s) == HasFirstHeader(s) /\ FirstBodyEnd(s) < Len(s)
FirstBody(s) == Slice(s, FirstBodyStart(s), FirstBodyEnd(s))

\* C4: a text whose first datasource block has no url property is patched:
\* the result is longer by exactly the injected line, and the bytes before
\* the body start and from the body start on are kept around the insertion.
C4_PatchedWhenUrlMissing ==
    (pc # "evaluate" /\ HasFirstBlock(schemaStr)
        /\ ~UrlMatchString(FirstBody(schemaStr)))
    => /\ evaluated.patched
       /\ Len(evaluated.text) = Len(schemaStr) + Len(Injected)
       /\ SliceTo(evaluated.text, FirstBodyStart(schemaStr))
            = SliceTo(schemaStr, FirstBodyStart(schemaStr))
       /\ SliceFrom(evaluated.text, FirstBodyStart(schemaStr) + Len(Injected))
            = SliceFrom(schemaStr, FirstBodyStart(schemaStr))

\* The same statement restricted to a first block with a non-empty body
\* (the case the pattern [^}]+ accepts).
PatchedWhenUrlMissingNonEmpty ==
    (pc # "evaluate" /\ HasFirstBlock(schemaStr)
        /\ FirstBody(schemaStr) # <<>>
        /\ ~UrlMatchString(FirstBody(schemaStr)))
    => /\ evaluated.patched
       /\ evaluated.text
            = SliceTo(schemaStr, FirstBodyStart(schemaStr)) \o Injected
                \o SliceFrom(schemaStr, FirstBodyStart(schemaStr))

\* C5: re-evaluating a patched text yields "unchanged".
C5_PatchIdempotent ==
    pc = "reevaluated"
    => /\ ~reevaluated.patched
       /\ reevaluated.text = evaluated.text

\* C5 witness: a text was patched (its block body not at the start of the
\* text) and the patched text was evaluated again.
C5_Witness ==
    /\ pc = "reevaluated"
    /\ evaluated.patched
    /\ evaluated.at > 0
    /\ Len(evaluated.text) = Len(schemaStr) + Len(Injected)

\* C9: only the first datasource block decides the outcome: a patch is
\* inserted at the body start of the first block, a first block with a url
\* property leaves the text unchanged, and so does a text without a header.
C9_OnlyFirstBlock ==
    pc # "evaluate"
    => /\ evaluated.patched
            => (HasFirstBlock(schemaStr)
                /\ evaluated.at = FirstBodyStart(schemaStr))
       /\ (HasFirstBlock(schemaStr) /\ UrlMatchString(FirstBody(schemaStr)))
            => ~evaluated.patched
       /\ ~HasFirstHeader(schemaStr) => ~evaluated.patched

-----------------------------------------------------------------------------
(* Specification SpecLocate: findSchemaPath applied to bounded argument    *)
(* lists                                                                   *)

MaxLocateArgs == 4

LocateTokens ==
    { <<"d", "e", "v">>,
      <<"-", "-", "s", "c", "h", "e", "m", "a">>,
      <<"-", "-", "s", "c", "h", "e", "m", "a", "=">>,
      <<"-", "-", "s", "c", "h", "e", "m", "a", "=", "a">>,
      <<"-", "-", "s", "c", "h", "e", "m">>,
      <<"b">> }

LocateArgs == UNION { [1..n -> LocateTokens] : n \in 0..MaxLocateArgs }

InitLocate ==
    /\ pc = "locate"
    /\ args \in LocateArgs
    /\ located = <<>>
    /\ arguments = NoArgs
    /\ fs = NoFiles
    /\ cleanup = NoCleanup
    /\ created = {}
    /\ environ = NoEnviron
    /\ cmdEnv = <<>>
    /\ spawned = 0
    /\ childArgs = NoArgs
    /\ err = NoResult
    /\ schemaStr = <<>>
    /\ evaluated = NotEvaluated
    /\ reevaluated = NotEvaluated

\* schemaPath := findSchemaPath(args)
Locate ==
    /\ pc = "locate"
    /\ located' = findSchemaPath(args)
    /\ pc' = "located"
    /\ UNCHANGED <<args, arguments, fs, cleanup, created, environ, cmdEnv,
                   spawned, childArgs, err, schemaStr, evaluated, reevaluated>>

NextLocate == Locate

SpecLocate == InitLocate /\ [][NextLocate]_vars

\* the positions of a schema flag in a: the token --schema with a value
\* token after it, or a token --schema=<value>
IsSplitFlagAt(a, i) == a[i] = SchemaFlag /\ i < Len(a)
IsJoinedFlagAt(a, i) ==
    /\ Len(a[i]) >= Len(SchemaFlagEq)
    /\ \A k \in 1..Len(SchemaFlagEq) : a[i][k] = SchemaFlagEq[k]
FlagPositions(a) ==
    { i \in 1..Len(a) : IsSplitFlagAt(a, i) \/ IsJoinedFlagAt(a, i) }
LeftmostFlag(a) == CHOOSE i \in FlagPositions(a) : \A j \in FlagPositions(a) : i <= j
FlagValue(a, i) ==
    IF IsSplitFlagAt(a, i) THEN a[i + 1]
    ELSE [k \in 1..(Len(a[i]) - Len(SchemaFlagEq)) |-> a[i][k + Len(SchemaFlagEq)]]

\* C3: findSchemaPath returns the value of the leftmost schema flag, and the
\* empty string when the arguments hold no schema flag.
C3_LocateLeftmost ==
    pc = "located"
    => IF FlagPositions(args) = {} THEN located = <<>>
       ELSE located = FlagValue(args, LeftmostFlag(args))

\* C3 witness: a split flag stands left of a joined one and its value was
\* returned.
C3_Witness ==
    /\ pc = "located"
    /\ Cardinality(FlagPositions(args)) >= 2
    /\ IsSplitFlagAt(args, LeftmostFlag(args))
    /\ \E j \in FlagPositions(args) : IsJoinedFlagAt(args, j) /\ Len(args[j]) > Len(SchemaFlagEq)
    /\ located = <<"b">>

-----------------------------------------------------------------------------
(* The child's environment, lines 44-61                                    *)

\* binaries.Engines: the engine descriptors, in order
Engines ==
    << [Name |-> <<"q", "u", "e", "r", "y", "-", "e", "n", "g", "i", "n", "e">>,
        Env |-> <<"P", "R", "I", "S", "M", "A", "_", "Q", "U", "E", "R", "Y", "_", "E", "N", "G", "I", "N", "E", "_", "B", "I", "N", "A", "R", "Y">>],
       [Name |-> <<"s", "c", "h", "e", "m", "a", "-", "e", "n", "g", "i", "n", "e">>,
        Env |-> <<"P", "R", "I", "S", "M", "A", "_", "S", "C", "H", "E", "M", "A", "_", "E", "N", "G", "I", "N", "E", "_", "B", "I", "N", "A", "R", "Y">>] >>

\* binaries.GlobalCacheDir(), binaries.EngineVersion and the platform's
\* binary name
GlobalCacheDir == <<"/", "c", "a", "c", "h", "e">>
EngineVersion == <<"v", "1">>
BinaryName == <<"l", "i", "n", "u", "x">>

\* the offset of the first "=" of an entry, or its length when it has none
RECURSIVE IndexOfEq(_, _)
IndexOfEq(e, p) ==
    IF p >= Len(e) \/ e[p + 1] = "=" THEN p ELSE IndexOfEq(e, p + 1)

KeyOf(e) == SliceTo(e, IndexOfEq(e, 0))
ValueOf(e) == SliceFrom(e, IndexOfEq(e, 0) + 1)

\* os.Getenv(key) over the ambient environment envs (its keys are unique):
\* the variable's value, and the empty string when it is not set
Getenv(envs, key) ==
    IF \E i \in 1..Len(envs) : KeyOf(envs[i]) = key
    THEN ValueOf(envs[CHOOSE i \in 1..Len(envs) : KeyOf(envs[i]) = key])
    ELSE <<>>

\* path.Join of elements that are already clean: the non-empty elements
\* joined by "/"
RECURSIVE PathJoin(_)
PathJoin(elems) ==
    IF elems = <<>> THEN <<>>
    ELSE IF Head(elems) = <<>> THEN PathJoin(Tail(elems))
    ELSE IF PathJoin(Tail(elems)) = <<>> THEN Head(elems)
    ELSE Head(elems) \o <<"/">> \o PathJoin(Tail(elems))

\* fmt.Sprintf("prisma-%s-%s", engine.Name, binaryName)
EngineFile(engine) == <<"p", "r", "i", "s", "m", "a", "-">> \o engine.Name \o <<"-">> \o BinaryName

\* lines 51-58: the value of one engine's variable
EngineValue(envs, engine) ==
    IF Getenv(envs, engine.Env) # <<>>
    THEN Getenv(envs, engine.Env)
    ELSE PathJoin(<<GlobalCacheDir, EngineVersion, EngineFile(engine)>>)

\* fmt.Sprintf("%s=%s", engine.Env, value)
EngineEntry(envs, engine) == engine.Env \o <<"=">> \o EngineValue(envs, engine)

EngineEntries(envs) == [k \in 1..Len(Engines) |-> EngineEntry(envs, Engines[k])]

FixedFlags ==
    << <<"P", "R", "I", "S", "M", "A", "_", "H", "I", "D", "E", "_", "U", "P", "D", "A", "T", "E", "_", "M", "E", "S", "S", "A", "G", "E", "=", "t", "r", "u", "e">>,
       <<"P", "R", "I", "S", "M", "A", "_", "C", "L", "I", "_", "Q", "U", "E", "R", "Y", "_", "E", "N", "G", "I", "N", "E", "_", "T", "Y", "P", "E", "=", "b", "i", "n", "a", "r", "y">> >>

\* a slip in the order: the engine entries placed before the passthrough copy
ComposeEnvEnginesFirst(envs) == EngineEntries(envs) \o envs \o FixedFlags

\* lines 46-61: cmd.Env
ComposeEnv(envs) == envs \o FixedFlags \o EngineEntries(envs)

-----------------------------------------------------------------------------
(* Specification SpecEnv: the environment composed from bounded ambient    *)
(* environments                                                            *)

MaxEnv == 3

AmbientEntries ==
    { <<"P", "R", "I", "S", "M", "A", "_", "Q", "U", "E", "R", "Y", "_", "E", "N", "G", "I", "N", "E", "_", "B", "I", "N", "A", "R", "Y", "=", "/", "c", "u", "s", "t", "o", "m", "/", "p", "a", "t", "h">>,
      <<"P", "R", "I", "S", "M", "A", "_", "Q", "U", "E", "R", "Y", "_", "E", "N", "G", "I", "N", "E", "_", "B", "I", "N", "A", "R", "Y", "=">>,
      <<"P", "R", "I", "S", "M", "A", "_", "Q", "U", "E", "R", "Y", "_", "E", "N", "G", "I", "N", "E", "_", "B", "I", "N", "A", "R", "Y", "_", "D", "I", "R", "=", "/", "d">>,
      <<"P", "R", "I", "S", "M", "A", "_", "S", "C", "H", "E", "M", "A", "_", "E", "N", "G", "I", "N", "E", "_", "B", "I", "N", "A", "R", "Y", "=", "a", "=", "b">>,
      <<"P", "R", "I", "S", "M", "A", "_", "S", "C", "H", "E", "M", "A", "_", "E", "N", "G", "I", "N", "E", "_", "B", "I", "N", "A", "R", "Y", "=">>,
      <<"P", "A", "T", "H", "=", "/", "b", "i", "n">> }

\* os.Environ(): entries in any order, no key twice
AmbientEnvs ==
    { e \in UNION { [1..n -> AmbientEntries] : n \in 0..MaxEnv } :
        \A i, j \in 1..Len(e) : KeyOf(e[i]) = KeyOf(e[j]) => i = j }

InitEnv ==
    /\ pc = "compose"
    /\ environ \in AmbientEnvs
    /\ cmdEnv = <<>>
    /\ args = NoArgs
    /\ arguments = NoArgs
    /\ fs = NoFiles
    /\ cleanup = NoCleanup
    /\ created = {}
    /\ spawned = 0
    /\ childArgs = NoArgs
    /\ err = NoResult
    /\ located = <<>>
    /\ schemaStr = <<>>
    /\ evaluated = NotEvaluated
    /\ reevaluated = NotEvaluated

\* lines 46-61 applied to the ambient environment
BuildEnv ==
    /\ pc = "compose"
    /\ cmdEnv' = ComposeEnv(environ)
    /\ pc' = "composed"
    /\ UNCHANGED <<args, arguments, fs, cleanup, created, environ, spawned,
                   childArgs, err, located, schemaStr, evaluated, reevaluated>>

NextEnv == BuildEnv

SpecEnv == InitEnv /\ [][NextEnv]_vars

\* the value the child resolves for key: the last entry of env whose text
\* before the first "=" is key
HasKey(env, key) == \E i \in 1..Len(env) : KeyOf(env[i]) = key
LastIndexOf(env, key) ==
    CHOOSE i \in 1..Len(env) :
        /\ KeyOf(env[i]) = key
        /\ \A j \in 1..Len(env) : KeyOf(env[j]) = key => j <= i
EffectiveValue(env, key) == ValueOf(env[LastIndexOf(env, key)])

ComputedPath(engine) ==
    GlobalCacheDir \o <<"/">> \o EngineVersion \o <<"/">> \o <<"p", "r", "i", "s", "m", "a", "-">>
        \o engine.Name \o <<"-">> \o BinaryName

\* C7: an engine variable set to a non-empty value in the ambient
\* environment is passed on as NAME=V and is the effective value; otherwise
\* the effective value is the computed cache path.  The engine entries
\* follow the passthrough copy, one per descriptor, in descriptor order.
C7_EngineOverride ==
    pc = "composed"
    => /\ SubSeq(cmdEnv, 1, Len(environ)) = environ
       /\ Len(cmdEnv) = Len(environ) + Len(FixedFlags) + Len(Engines)
       /\ \A k \in 1..Len(Engines) :
            LET key == Engines[k].Env
                entry == cmdEnv[Len(environ) + Len(FixedFlags) + k]
            IN  /\ KeyOf(entry) = key
                /\ HasKey(cmdEnv, key)
                /\ \A i \in 1..Len(environ) :
                     (KeyOf(environ[i]) = key /\ ValueOf(environ[i]) # <<>>)
                     => /\ \E n \in 1..Len(cmdEnv) : cmdEnv[n] = environ[i]
                        /\ EffectiveValue(cmdEnv, key) = ValueOf(environ[i])
                /\ (~\E i \in 1..Len(environ) :
                        KeyOf(environ[i]) = key /\ ValueOf(environ[i]) # <<>>)
                   => EffectiveValue(cmdEnv, key) = ComputedPath(Engines[k])

\* C7 witness: one engine variable is overridden, the other is set but
\* empty, and the environment was composed.
C7_Witness ==
    /\ pc = "composed"
    /\ \E i \in 1..Len(environ) : environ[i] = <<"P", "R", "I", "S", "M", "A", "_", "S", "C", "H", "E", "M", "A", "_", "E", "N", "G", "I", "N", "E", "_", "B", "I", "N", "A", "R", "Y", "=", "a", "=", "b">>
    /\ \E i \in 1..Len(environ) : environ[i] = <<"P", "R", "I", "S", "M", "A", "_", "Q", "U", "E", "R", "Y", "_", "E", "N", "G", "I", "N", "E", "_", "B", "I", "N", "A", "R", "Y", "=">>
    /\ EffectiveValue(cmdEnv, Engines[2].Env) = <<"a", "=", "b">>
    /\ EffectiveValue(cmdEnv, Engines[1].Env) = <<"/", "c", "a", "c", "h", "e", "/", "v", "1", "/", "p", "r", "i", "s", "m", "a", "-", "q", "u", "e", "r", "y", "-", "e", "n", "g", "i", "n", "e", "-", "l", "i", "n", "u", "x">>

-----------------------------------------------------------------------------
(* Files                                                                   *)

Absent == [kind |-> "missing", data |-> <<>>]
Unreadable == [kind |-> "unreadable", data |-> <<>>]
File(d) == [kind |-> "file", data |-> d]

\* the default locations of line 89
DefaultPaths == << <<".", "/", "s", "c", "h", "e", "m", "a", ".", "p", "r", "i", "s", "m", "a">>, <<".", "/", "p", "r", "i", "s", "m", "a", "/", "s", "c", "h", "e", "m", "a", ".", "p", "r", "i", "s", "m", "a">> >>

PathA == <<"a">>
\* names os.CreateTemp("", "schema-*.prisma") may draw
Tmp1 == <<"/", "t", "m", "p", "/", "s", "c", "h", "e", "m", "a", "-", "1", ".", "p", "r", "i", "s", "m", "a">>
Tmp2 == <<"/", "t", "m", "p", "/", "s", "c", "h", "e", "m", "a", "-", "2", ".", "p", "r", "i", "s", "m", "a">>
TmpNames == {Tmp1, Tmp2}

\* os.Stat(p) succeeds
Stat(f, p) == p \in DOMAIN f /\ f[p].kind # "missing"
\* os.ReadFile(p) succeeds
CanRead(f, p) == p \in DOMAIN f /\ f[p].kind = "file"
\* os.Remove(p); its error is ignored
RemoveFile(f, p) == IF p \in DOMAIN f THEN [f EXCEPT ![p] = Absent] ELSE f

\* a slip: O_EXCL left out, so that a name already in use may be drawn
TempCandidatesAnyName(f) == TmpNames

\* os.CreateTemp opens with O_CREATE|O_EXCL: the name drawn is not in use
TempCandidates(f) == { t \in TmpNames : f[t].kind = "missing" }

\* lines 80-96: the path from the arguments, else the first default
\* location that exists, else ""
ResolveSchemaPath(f, a) ==
    IF findSchemaPath(a) # <<>> THEN findSchemaPath(a)
    ELSE IF Stat(f, DefaultPaths[1]) THEN DefaultPaths[1]
    ELSE IF Stat(f, DefaultPaths[2]) THEN DefaultPaths[2]
    ELSE <<>>

\* whether lines 98-131 go on to patch: a schema path is known, the file
\* is read, and its text is to be patched
NeedsPatch(f, a) ==
    /\ ResolveSchemaPath(f, a) # <<>>
    /\ CanRead(f, ResolveSchemaPath(f, a))
    /\ EvaluateSchema(f[ResolveSchemaPath(f, a)].data).patched

PatchedText(f, a) == EvaluateSchema(f[ResolveSchemaPath(f, a)].data).text

-----------------------------------------------------------------------------
(* The rewritten argument list, lines 152-176                              *)

\* the loop of lines 157-168 from index i on: the rewritten copy and found
RECURSIVE RewriteFrom(_, _, _)
RewriteFrom(newArgs, i, tmp) ==
    IF i > Len(newArgs) THEN [args |-> newArgs, found |-> FALSE]
    ELSE IF newArgs[i] = SchemaFlag /\ i + 1 <= Len(newArgs)
    THEN [args |-> [newArgs EXCEPT ![i + 1] = tmp], found |-> TRUE]
    ELSE IF HasPrefix(newArgs[i], SchemaFlagEq)
    THEN [args |-> [newArgs EXCEPT ![i] = SchemaFlagEq \o tmp], found |-> TRUE]
    ELSE RewriteFrom(newArgs, i + 1, tmp)

\* a slip in the loop: the break left out, so that every schema flag is
\* rewritten
RECURSIVE RewriteEveryFlag(_, _, _)
RewriteEveryFlag(newArgs, i, tmp) ==
    IF i > Len(newArgs) THEN newArgs
    ELSE IF newArgs[i] = SchemaFlag /\ i + 1 <= Len(newArgs)
    THEN RewriteEveryFlag([newArgs EXCEPT ![i + 1] = tmp], i + 1, tmp)
    ELSE IF HasPrefix(newArgs[i], SchemaFlagEq)
    THEN RewriteEveryFlag([newArgs EXCEPT ![i] = SchemaFlagEq \o tmp], i + 1, tmp)
    ELSE RewriteEveryFlag(newArgs, i + 1, tmp)

RewriteArgsNoBreak(a, tmp) ==
    IF RewriteFrom(a, 1, tmp).found THEN RewriteEveryFlag(a, 1, tmp)
    ELSE a \o <<SchemaFlag, tmp>>

\* lines 152-176: newArgs, a copy of args with the schema flag pointed at tmp
RewriteArgs(a, tmp) ==
    IF RewriteFrom(a, 1, tmp).found THEN RewriteFrom(a, 1, tmp).args
    ELSE a \o <<SchemaFlag, tmp>>

-----------------------------------------------------------------------------
(* Run                                                                     *)

\* a slip: the cleanup called nowhere
AfterReturnNoCleanup(f, c) == f

\* the deferred cleanup of lines 37-39 and 178-180, run when Run returns
AfterReturn(f, c) == IF c.set THEN RemoveFile(f, c.path) ELSE f

\* a slip: the partly written file left behind
AfterWriteFailureKeepFile(f, t) == f

\* lines 146-147: tmpFile.Close(); os.Remove(tmpFile.Name())
AfterWriteFailure(f, t) == RemoveFile(f, t)

\* a variant: the error formatted from the caller's slice instead of the
\* reassigned local
RunErrorCallerArgs(cause, a) == [kind |-> "run", cause |-> cause, args |-> args]

\* fmt.Errorf("could not run %+v: %w", arguments, err)
RunError(cause, a) == [kind |-> "run", cause |-> cause, args |-> a]
Success == [kind |-> "nil", cause |-> "", args |-> <<>>]

\* lines 22-26, binaries.FetchNative fails
FetchFails ==
    /\ pc = "fetch"
    /\ err' = [kind |-> "fetch", cause |-> "fetch", args |-> <<>>]
    /\ pc' = "returned"
    /\ UNCHANGED <<args, arguments, fs, cleanup, created, environ, cmdEnv,
                   spawned, childArgs, located, schemaStr, evaluated, reevaluated>>

\* lines 22-28, binaries.FetchNative succeeds
FetchSucceeds ==
    /\ pc = "fetch"
    /\ pc' = "shim"
    /\ UNCHANGED <<args, arguments, fs, cleanup, created, environ, cmdEnv,
                   spawned, childArgs, err, located, schemaStr, evaluated,
                   reevaluated>>

\* line 33, shimSchemaCompatibility returning at line 99, 105, 118 or 130
ShimUnchanged ==
    /\ pc = "shim"
    /\ ~NeedsPatch(fs, arguments)
    /\ pc' = "exec"
    /\ UNCHANGED <<args, arguments, fs, cleanup, created, environ, cmdEnv,
                   spawned, childArgs, err, located, schemaStr, evaluated,
                   reevaluated>>

\* lines 140-143 and 34-36: os.CreateTemp fails
ShimCreateTempFails ==
    /\ pc = "shim"
    /\ NeedsPatch(fs, arguments)
    /\ err' = [kind |-> "shim", cause |-> "create", args |-> <<>>]
    /\ pc' = "returned"
    /\ UNCHANGED <<args, arguments, fs, cleanup, created, environ, cmdEnv,
                   spawned, childArgs, located, schemaStr, evaluated, reevaluated>>

\* lines 140-149 and 34-36: the file is created, WriteString fails after
\* writing n bytes, the file is closed and removed
ShimWriteFails ==
    /\ pc = "shim"
    /\ NeedsPatch(fs, arguments)
    /\ \E t \in TempCandidates(fs) :
       \E n \in {0, Len(PatchedText(fs, arguments)) - 1} :
          /\ fs' = AfterWriteFailure(
                      [fs EXCEPT ![t] = File(SliceTo(PatchedText(fs, arguments), n))], t)
          /\ created' = created \cup {t}
    /\ err' = [kind |-> "shim", cause |-> "write", args |-> <<>>]
    /\ pc' = "returned"
    /\ UNCHANGED <<args, arguments, cleanup, environ, cmdEnv, spawned,
                   childArgs, located, schemaStr, evaluated, reevaluated>>

\* lines 140-182 and 33-39: the patched text is written to a new temporary
\* file, the arguments are rewritten and the cleanup is deferred
ShimPatched ==
    /\ pc = "shim"
    /\ NeedsPatch(fs, arguments)
    /\ \E t \in TempCandidates(fs) :
          /\ fs' = [fs EXCEPT ![t] = File(PatchedText(fs, arguments))]
          /\ created' = created \cup {t}
          /\ arguments' = RewriteArgs(arguments, t)
          /\ cleanup' = [set |-> TRUE, path |-> t]
    /\ pc' = "exec"
    /\ UNCHANGED <<args, environ, cmdEnv, spawned, childArgs, err, located,
                   schemaStr, evaluated, reevaluated>>

\* lines 41-72: cmd.Run cannot start the child; Run returns the error and
\* the deferred cleanup runs
ExecStartFails ==
    /\ pc = "exec"
    /\ cmdEnv' = ComposeEnv(environ)
    /\ err' = RunError("start", arguments)
    /\ fs' = AfterReturn(fs, cleanup)
    /\ pc' = "returned"
    /\ UNCHANGED <<args, arguments, cleanup, created, environ, spawned,
                   childArgs, located, schemaStr, evaluated, reevaluated>>

\* lines 41-70: cmd.Run starts the child and waits for it
ExecStarts ==
    /\ pc = "exec"
    /\ cmdEnv' = ComposeEnv(environ)
    /\ spawned' = spawned + 1
    /\ childArgs' = arguments
    /\ pc' = "wait"
    /\ UNCHANGED <<args, arguments, fs, cleanup, created, environ, err,
                   located, schemaStr, evaluated, reevaluated>>

\* lines 70-75: the child exits with status code, Run returns and the
\* deferred cleanup runs
ChildExits ==
    /\ pc = "wait"
    /\ \E code \in {0, 1} :
          err' = IF code = 0 THEN Success ELSE RunError("exit", arguments)
    /\ fs' = AfterReturn(fs, cleanup)
    /\ pc' = "returned"
    /\ UNCHANGED <<args, arguments, cleanup, created, environ, cmdEnv, spawned,
                   childArgs, located, schemaStr, evaluated, reevaluated>>

MaxArgs == 3

RunTokens ==
    { <<"d", "e", "v">>,
      <<"-", "-", "s", "c", "h", "e", "m", "a">>,
      <<"-", "-", "s", "c", "h", "e", "m", "a", "=">>,
      <<"-", "-", "s", "c", "h", "e", "m", "a", "=", "a">>,
      <<"-", "-", "s", "c", "h", "e", "m", "a", "=", "/", "t", "m", "p", "/", "s", "c", "h", "e", "m", "a", "-", "1", ".", "p", "r", "i", "s", "m", "a">>,
      <<"a">> }

RunArgs == UNION { [1..n -> RunTokens] : n \in 0..MaxArgs }

\* schema texts on disk before the call
DocA == <<"d", "a", "t", "a", "s", "o", "u", "r", "c", "e", " ", "d", "b", " ", "{", "\n", " ", " ", "p", "r", "o", "v", "i", "d", "e", "r", " ", "=", " ", "\"", "p", "o", "s", "t", "g", "r", "e", "s", "q", "l", "\"", "\n", "}", "\n">>
DocAUrl == <<"d", "a", "t", "a", "s", "o", "u", "r", "c", "e", " ", "d", "b", " ", "{", "\n", " ", " ", "u", "r", "l", " ", "=", " ", "e", "n", "v", "(", "\"", "X", "\"", ")", "\n", "}", "\n">>
DocDefault1 == <<"d", "a", "t", "a", "s", "o", "u", "r", "c", "e", " ", "o", "n", "e", " ", "{", "\n", "}">>
DocDefault2 == <<"d", "a", "t", "a", "s", "o", "u", "r", "c", "e", " ", "t", "w", "o", " ", "{", " ", "p", " ", "}">>
DocTmp == <<"g", "e", "n", "e", "r", "a", "t", "o", "r", " ", "g", " ", "{", "}", "\n", "d", "a", "t", "a", "s", "o", "u", "r", "c", "e", " ", "t", "m", "p", " ", "{", " ", "d", "i", "r", "e", "c", "t", "U", "r", "l", " ", "=", " ", "1", " ", "}">>

InitialFiles ==
    { f \in [{PathA, DefaultPaths[1], DefaultPaths[2], Tmp1, Tmp2}
                -> {Absent, Unreadable, File(DocA), File(DocAUrl),
                    File(DocDefault1), File(DocDefault2), File(DocTmp)}] :
        /\ f[PathA] \in {Unreadable, File(DocA), File(DocAUrl)}
        /\ f[DefaultPaths[1]] \in {Absent, File(DocDefault1)}
        /\ f[DefaultPaths[2]] \in {Absent, File(DocDefault2)}
        /\ f[Tmp1] \in {Absent, File(DocTmp)}
        /\ f[Tmp2] = Absent }

Init ==
    /\ pc = "fetch"
    /\ args \in RunArgs
    /\ arguments = args
    /\ fs \in InitialFiles
    /\ cleanup = NoCleanup
    /\ created = {}
    /\ environ = << <<"P", "A", "T", "H", "=", "/", "b", "i", "n">>, <<"P", "R", "I", "S", "M", "A", "_", "Q", "U", "E", "R", "Y", "_", "E", "N", "G", "I", "N", "E", "_", "B", "I", "N", "A", "R", "Y", "=", "/", "c", "u", "s", "t", "o", "m", "/", "p", "a", "t", "h">> >>
    /\ cmdEnv = <<>>
    /\ spawned = 0
    /\ childArgs = NoArgs
    /\ err = NoResult
    /\ located = <<>>
    /\ schemaStr = <<>>
    /\ evaluated = NotEvaluated
    /\ reevaluated = NotEvaluated

Next ==
    \/ FetchFails
    \/ FetchSucceeds
    \/ ShimUnchanged
    \/ ShimCreateTempFails
    \/ ShimWriteFails
    \/ ShimPatched
    \/ ExecStartFails
    \/ ExecStarts
    \/ ChildExits

Spec == Init /\ [][Next]_vars

-----------------------------------------------------------------------------
(* Properties of Run                                                       *)

\* the argument list the specification describes for a patched schema and
\* the temporary path t: the value of the leftmost schema flag replaced,
\* its encoding and position kept, or the pair --schema t appended
ExpectedArgs(a, t) ==
    IF FlagPositions(a) = {} THEN a \o <<SchemaFlag, t>>
    ELSE IF IsSplitFlagAt(a, LeftmostFlag(a))
    THEN [i \in 1..Len(a) |-> IF i = LeftmostFlag(a) + 1 THEN t ELSE a[i]]
    ELSE [i \in 1..Len(a) |-> IF i = LeftmostFlag(a) THEN SchemaFlagEq \o t ELSE a[i]]

\* C1: once Run has returned, by whatever path, no temporary file it
\* created exists.
C1_NoTempFileAfterReturn ==
    pc = "returned" => \A t \in created : fs[t].kind = "missing"

\* C1 witness: the patched file was materialized, the child exited non-zero
\* and Run has returned.
C1_Witness ==
    /\ pc = "returned"
    /\ cleanup.set
    /\ cleanup.path \in created
    /\ spawned = 1
    /\ err.kind = "run"
    /\ err.cause = "exit"

\* C2: no step changes a file other than a temporary file this Run created,
\* and a temporary file is created only under a name that was not in use;
\* so the schema file keeps its content.
C2_OriginalUntouched ==
    [][\A p \in DOMAIN fs :
          fs'[p] # fs[p]
          => /\ p \in created'
             /\ p \in created \/ fs[p].kind = "missing"
             /\ p # ResolveSchemaPath(fs, args)]_vars

\* C2 witness: the schema file itself carries a temporary-looking name, was
\* patched into another file, and the child is running.
C2_Witness ==
    /\ pc = "wait"
    /\ cleanup.set
    /\ ResolveSchemaPath(fs, args) = Tmp1
    /\ fs[Tmp1] = File(DocTmp)
    /\ fs[Tmp2].kind = "file"
    /\ fs[Tmp2].data # DocTmp

C6_ChildArgs ==
    (pc \in {"wait", "returned"} /\ spawned = 1 /\ cleanup.set)
    => /\ childArgs = ExpectedArgs(args, cleanup.path)
       /\ cleanup.path # ResolveSchemaPath(fs, args)
       /\ cleanup.path # findSchemaPath(args)

\* C6: when the schema was patched, the child's arguments are the caller's
\* with only the value of the leftmost schema flag replaced by the temporary
\* path, or with --schema <tempfile> appended when there is no flag; the
\* temporary path is not the schema path; the caller's slice never changes.
C6_ArgsRewritten == []C6_ChildArgs /\ [][args' = args]_vars

\* C6 witness: the arguments held two schema flags, the schema was patched
\* and the child was started with the rewritten list.
C6_Witness ==
    /\ pc = "wait"
    /\ cleanup.set
    /\ Cardinality(FlagPositions(args)) >= 2
    /\ IsJoinedFlagAt(args, LeftmostFlag(args))
    /\ childArgs # args
    /\ Len(childArgs) = Len(args)

\* the schema path is known and the file cannot be read
ReadFails ==
    /\ ResolveSchemaPath(fs, args) # <<>>
    /\ ~CanRead(fs, ResolveSchemaPath(fs, args))

\* C8: the child is started at most once, and never when the fetch or the
\* shim failed; Run then has returned the error and no temporary file is
\* left.  A schema file that cannot be read is no error: the child is
\* started with the caller's arguments.
C8_SpawnOnlyAfterSuccess ==
    /\ spawned <= 1
    /\ spawned = 1 => (pc \in {"wait", "returned"} /\ err.kind \notin {"fetch", "shim"})
    /\ err.kind \in {"fetch", "shim"}
       => /\ pc = "returned"
          /\ spawned = 0
          /\ \A t \in TmpNames : t \in created => fs[t].kind = "missing"
    /\ (pc = "exec" /\ ReadFails) => (arguments = args /\ ~cleanup.set)
    /\ (spawned = 1 /\ ReadFails) => childArgs = args

\* C8 witness: writing the temporary file failed and Run returned the error
\* without starting the child.
C8_Witness ==
    /\ pc = "returned"
    /\ err.kind = "shim"
    /\ err.cause = "write"
    /\ created # {}
    /\ spawned = 0

\* C10 as stated: a failed run's error carries the arguments the caller
\* passed, also when the shim rewrote them; a zero exit returns no error.
C10_ErrorWrapsCallerArgs ==
    pc = "returned"
    => /\ err.kind = "run" => err.args = args
       /\ err.kind = "nil" => spawned = 1

\* C10 amended: a failed run's error carries the arguments the child was
\* run with: the caller's, or the rewritten list when the shim rewrote
\* them; a zero exit returns no error.
C10_ErrorWrapsRunArgs ==
    pc = "returned"
    => /\ err.kind = "run"
          => /\ err.cause \in {"start", "exit"}
             /\ err.args = IF cleanup.set
                           THEN ExpectedArgs(args, cleanup.path) ELSE args
             /\ err.cause = "exit" => (spawned = 1 /\ err.args = childArgs)
             /\ err.cause = "start" => spawned = 0
       /\ err.kind = "nil" => spawned = 1

\* C10 witness: the shim rewrote the arguments, the child could not be
\* started, and the error carries the rewritten list.
C10_Witness ==
    /\ pc = "returned"
    /\ err.kind = "run"
    /\ err.cause = "start"
    /\ cleanup.set
    /\ err.args # args

=============================================================================
